---- MODULE Spec2Model ----
(***************************************************************************)
(* vuru: the package-index synchronizer (src/vuru/src/index.rs).           *)
(*                                                                         *)
(* The state is the content of the cache directory (the index file and    *)
(* its ".etag" sidecar) together with a record of what the last call of   *)
(* Index::load_or_fetch saw and did.  The remote server and the disk are   *)
(* the environment: every call draws the server's answer and the outcome  *)
(* of each file write from small sets.                                     *)
(***************************************************************************)
EXTENDS Integers, Sequences, FiniteSets, TLC

VARIABLES indexFile, etagFile, pairedTag, last

vars == <<indexFile, etagFile, pairedTag, last>>

\* The template cache, the files that reviews have left in the temporary
\* directory, the run of main in progress and the record of the last call of
\* review_changes.
VARIABLES templates, tmpFiles, run, call

\* The record of the last call of Index::search.
VARIABLE searched

runVars == <<templates, tmpFiles, run, call, searched>>
allVars == <<vars, runVars>>

(***************************************************************************)
(* Bounds and universes.                                                   *)
(***************************************************************************)
MaxVersion == 2
MaxTag == 2

Names == {"foo", "bar"}
Versions == 1..MaxVersion
\* An ETag value is an opaque string; the model numbers them.
Tags == 1..MaxTag
\* Option::None of an Option<String> holding an ETag.
NoTag == 0

\* The versions the server publishes of each package.
VersionsOf(n) == IF n = "foo" THEN Versions ELSE {1}

\* struct PackageInfo { category, version, repo_url }
PackageInfo(v) == [category |-> "dev", version |-> v, repo_url |-> "http://x"]

\* struct Index(HashMap<String, PackageInfo>): a map from some names to infos.
Indexes ==
  UNION {{f \in [S -> {PackageInfo(v) : v \in Versions}] :
            \A n \in S : f[n].version \in VersionsOf(n)} : S \in SUBSET Names}

\* HashMap::new(): the index with no entry.
EmptyIndex == CHOOSE f \in Indexes : DOMAIN f = {}

(***************************************************************************)
(* Texts: what travels on the wire and what lies in the index file.  A     *)
(* text is either not a JSON object at all (HTML, an empty file, ...) or a *)
(* JSON object given as the sequence of its members; a member is complete  *)
(* when it has the three string fields of PackageInfo.                     *)
(***************************************************************************)
NotJson == [json |-> FALSE, members |-> <<>>]

Complete == {m \in [name : Names, version : Versions, complete : {TRUE}] :
               m.version \in VersionsOf(m.name)}
\* A member that lacks a field of PackageInfo.
Incomplete == [name |-> "foo", version |-> 1, complete |-> FALSE]

JsonOf(s) == [json |-> TRUE, members |-> s]

\* The texts a server sends: no JSON, {}, an object with an incomplete
\* member, and the objects of one or two different complete members, the
\* same name twice included (two members are listed with "foo" in its
\* first version first).
Texts ==
  {NotJson, JsonOf(<<>>), JsonOf(<<Incomplete>>)}
    \cup {JsonOf(<<m>>) : m \in Complete}
    \cup {JsonOf(p) : p \in {q \in Complete \X Complete :
                                 /\ q[1].name = "foo" /\ q[1].version = 1
                                 /\ q[1] # q[2]}}

\* The result of a decode that failed.
DecodeErr == [ok |-> FALSE, index |-> EmptyIndex]

\* serde_json::from_str::<HashMap<String, PackageInfo>> / Response::json():
\* all or nothing; of two members with one name the later one wins.
Decode(text) ==
  IF ~text.json \/ \E i \in DOMAIN text.members : ~text.members[i].complete
  THEN DecodeErr
  ELSE LET m == text.members
           keys == {m[i].name : i \in DOMAIN m}
           lastOf(n) == CHOOSE i \in DOMAIN m :
                          m[i].name = n /\ \A j \in DOMAIN m : m[j].name = n => j <= i
       IN [ok |-> TRUE, index |-> [n \in keys |-> PackageInfo(m[lastOf(n)].version)]]

\* A serializer that writes every entry with the first version.
Encodings_ForgetsVersion(idx) ==
  {JsonOf([i \in DOMAIN order |->
             [name |-> order[i], version |-> 1, complete |-> TRUE]]) :
     order \in {o \in [1..Cardinality(DOMAIN idx) -> DOMAIN idx] :
                  \A i, j \in DOMAIN o : o[i] = o[j] => i = j}}

\* serde_json::to_string(&idx.0): one member per entry, in the HashMap's
\* iteration order, which is any order.
Encodings(idx) ==
  {JsonOf([i \in DOMAIN order |->
             [name |-> order[i], version |-> idx[order[i]].version, complete |-> TRUE]]) :
     order \in {o \in [1..Cardinality(DOMAIN idx) -> DOMAIN idx] :
                  \A i, j \in DOMAIN o : o[i] = o[j] => i = j}}

(***************************************************************************)
(* Files.                                                                  *)
(***************************************************************************)
NoIndexFile == [exists |-> FALSE, text |-> NotJson]
IndexFileOf(text) == [exists |-> TRUE, text |-> text]
NoEtagFile == [exists |-> FALSE, tag |-> NoTag]
\* What a token file holds after a write that failed half way: a prefix of
\* the ETag, which is no ETag the server gave.
PartialTag == -1
EtagFileOf(t) == [exists |-> TRUE, tag |-> t]

(***************************************************************************)
(* The server's answer to one GET, as reqwest hands it to Index::fetch.    *)
(***************************************************************************)
TransportError == [kind |-> "transport_error", status |-> 0, body |-> NotJson, etag |-> NoTag]
NotModified == [kind |-> "http", status |-> 304, body |-> NotJson, etag |-> NoTag]

\* Bodies of error pages: an HTML page, the JSON object {} and a JSON index.
ErrorTexts == {NotJson, JsonOf(<<>>),
               JsonOf(<<[name |-> "foo", version |-> 1, complete |-> TRUE]>>)}

\* The tokens the server sends: its first and its newest.
SentTags == {t \in Tags : t = 1 \/ t = MaxTag}

Responses ==
  {TransportError, NotModified}
    \cup [kind : {"http"}, status : {200}, body : Texts, etag : {NoTag} \cup SentTags]
    \cup [kind : {"http"}, status : {500}, body : ErrorTexts, etag : {NoTag, 1}]

\* Outcomes of fs::write: done; refused before the file was opened; failed
\* after File::create truncated the file, which is left with a part of the
\* text.
IndexWrites == {"ok", "failed", "truncated"}
TagWrites == {"ok", "failed", "truncated"}

(***************************************************************************)
(* Results of load_or_fetch: Ok(index) or Err(err).                        *)
(***************************************************************************)
Ok(idx) == [ok |-> TRUE, index |-> idx, err |-> "none"]
Err(e) == [ok |-> FALSE, index |-> EmptyIndex, err |-> e]
\* No result: a println! panicked and the process ended.
Panic == Err("panic")

\* Outcomes of fs::read_to_string on a file that exists: its text, or an
\* error (the file cannot be opened or read).  "none": no read was made.
FileReads == {"ok", "failed"}

\* load_or_fetch, lines 54-58, without the test that the index file exists.
CachedEtag_IgnoresIndex(idx, tag, read) ==
  IF tag.exists /\ read # "failed" THEN tag.tag ELSE NoTag

\* load_or_fetch, lines 54-58: the token counts only beside its index file,
\* and a token file that cannot be read is no token (.ok()).
CachedEtag(idx, tag, read) ==
  IF idx.exists /\ tag.exists /\ read = "ok" THEN tag.tag ELSE NoTag

\* A cache test that never hits.
CacheHit_Never(force, idx, read) == FALSE

\* load_or_fetch, lines 60-66: the cache answers when no refresh is asked
\* for and the file is there, can be read and decodes.
CacheHit(force, idx, read) ==
  ~force /\ idx.exists /\ read = "ok" /\ Decode(idx.text).ok

FetchErr == [ok |-> FALSE, index |-> EmptyIndex, new_etag |-> NoTag, updated |-> FALSE]

\* A fetch that reports its placeholder for a 304 as an update.
Fetch_304AsUpdate(resp) ==
  IF resp.kind = "transport_error" THEN FetchErr
  ELSE IF resp.status = 304
       THEN [ok |-> TRUE, index |-> EmptyIndex, new_etag |-> NoTag, updated |-> TRUE]
       ELSE LET d == Decode(resp.body)
            IN IF d.ok
               THEN [ok |-> TRUE, index |-> d.index, new_etag |-> resp.etag, updated |-> TRUE]
               ELSE FetchErr

\* A fetch that does not propagate the decode error of response.json().
Fetch_AcceptsAnyBody(resp) ==
  IF resp.kind = "transport_error" THEN FetchErr
  ELSE IF resp.status = 304
       THEN [ok |-> TRUE, index |-> EmptyIndex, new_etag |-> NoTag, updated |-> FALSE]
       ELSE [ok |-> TRUE, index |-> Decode(resp.body).index, new_etag |-> resp.etag,
             updated |-> TRUE]

\* Index::fetch, lines 29-46.  The status is compared with 304 and with
\* nothing else: every other answer goes on to response.json().
Fetch(resp) ==
  IF resp.kind = "transport_error" THEN FetchErr
  ELSE IF resp.status = 304
       THEN [ok |-> TRUE, index |-> EmptyIndex, new_etag |-> NoTag, updated |-> FALSE]
       ELSE LET d == Decode(resp.body)
            IN IF d.ok
               THEN [ok |-> TRUE, index |-> d.index, new_etag |-> resp.etag, updated |-> TRUE]
               ELSE FetchErr

\* A read that passes off an unusable index file as an index of no packages.
ReadCached_EmptyOnError(file, read) ==
  IF ~file.exists \/ read = "failed" THEN Ok(EmptyIndex)
  ELSE LET d == Decode(file.text)
       IN IF d.ok THEN Ok(d.index) ELSE Ok(EmptyIndex)

\* load_or_fetch, lines 71-73 and 87-89: read the index file and decode it,
\* either failure being the call's error.
ReadCached(file, read) ==
  IF ~file.exists \/ read = "failed" THEN Err("cache_read")
  ELSE LET d == Decode(file.text)
       IN IF d.ok THEN Ok(d.index) ELSE Err("cache_decode")

\* load_or_fetch, line 77: fs::write(&path, content).
WriteIndex(file, text, outcome) ==
  CASE outcome = "ok" -> IndexFileOf(text)
    [] outcome = "truncated" -> IndexFileOf(NotJson)
    [] OTHER -> file

\* load_or_fetch, lines 79-81: fs::write(&etag_path, e).ok().
WriteEtag(file, t, outcome) ==
  CASE outcome = "ok" -> EtagFileOf(t)
    [] outcome = "truncated" -> EtagFileOf(PartialTag)
    [] OTHER -> file

(***************************************************************************)
(* Index::load_or_fetch as a function of what it reads and of what the     *)
(* environment answers.  The outcome names the files as the call leaves    *)
(* them and what the caller and the network see of the call:               *)
(*   result      Ok(index) or Err(..)                                      *)
(*   source      where a returned index is from: "cache", "network"        *)
(*   reqs        the number of GET requests sent                           *)
(*   sent        the If-None-Match header of the request (NoTag: none)     *)
(*   wroteIndex  fs::write was called on the index file                    *)
(*   wroteEtag   fs::write was called on the token file                    *)
(***************************************************************************)
Outcome(idx, tag, res, src, reqs, sent, wi, wt) ==
  [indexFile |-> idx, etagFile |-> tag, result |-> res, source |-> src,
   reqs |-> reqs, sent |-> sent, wroteIndex |-> wi, wroteEtag |-> wt]

\* Lines 85-93: the fetch failed.
Fallback(idx, tag, sent, read) ==
  IF idx.exists
  THEN Outcome(idx, tag, ReadCached(idx, read), "cache", 1, sent, FALSE, FALSE)
  ELSE Outcome(idx, tag, Err("no_cache"), "none", 1, sent, FALSE, FALSE)

\* Lines 76-83: the fetch brought an index; store it, then its token.
Store(idx, tag, f, sent, text, wIdx, wTag) ==
  IF wIdx # "ok"
  THEN Outcome(WriteIndex(idx, text, wIdx), tag, Err("cache_write"), "none",
               1, sent, TRUE, FALSE)
  ELSE IF f.new_etag # NoTag
       THEN Outcome(WriteIndex(idx, text, wIdx), WriteEtag(tag, f.new_etag, wTag),
                    Ok(f.index), "network", 1, sent, TRUE, TRUE)
       ELSE Outcome(WriteIndex(idx, text, wIdx), tag,
                    Ok(f.index), "network", 1, sent, TRUE, FALSE)

\* Lines 49-95 with Index::fetch, lines 18-47.
\*   dirOk  Cache::new() found or made the directory.
\*   out    the first println! that cannot write to the standard output and
\*          panics: "L20" (index.rs:20, before the request), "L32" (index.rs:32,
\*          on a 304), or "ok".
\*   gone   the index file was removed from outside while the call waited for
\*          the answer (line 29), after the token was read (lines 54-58) and
\*          before the file is read or written again (lines 70-93).
\*   rTag   the read of the token file (line 55)
\*   rIdx   the read of the index file before the request (line 61)
\*   rLater the read of the index file after the request (lines 71 and 87)
Sync(force, dirOk, out, gone, rTag, rIdx, rLater, idx, tag, resp, text, wIdx, wTag) ==
  LET sent == CachedEtag(idx, tag, rTag)
      f == Fetch(resp)
      later == IF gone THEN NoIndexFile ELSE idx
  IN IF ~dirOk
     THEN Outcome(idx, tag, Err("cache_dir"), "none", 0, NoTag, FALSE, FALSE)
     ELSE IF CacheHit(force, idx, rIdx)
     THEN Outcome(idx, tag, Ok(Decode(idx.text).index), "cache", 0, NoTag, FALSE, FALSE)
     ELSE IF out = "L20"
     THEN Outcome(idx, tag, Panic, "none", 0, NoTag, FALSE, FALSE)
     ELSE IF resp.kind = "http" /\ resp.status = 304 /\ out = "L32"
     THEN Outcome(later, tag, Panic, "none", 1, sent, FALSE, FALSE)
     ELSE IF ~f.ok THEN Fallback(later, tag, sent, rLater)
     ELSE IF ~f.updated
          THEN Outcome(later, tag, ReadCached(later, rLater), "cache", 1, sent,
                       FALSE, FALSE)
          ELSE Store(later, tag, f, sent, text, wIdx, wTag)

(***************************************************************************)
(* The record of a call: what was asked, what the environment answered,    *)
(* and what the call returned.  While last.op is "sync" the call has just  *)
(* returned and its record is complete; once the caller has taken the      *)
(* result the record keeps the result and its source only.                 *)
(***************************************************************************)
\* The three reads of a call.
Reads3(rTag, rIdx, rLater) == [tag |-> rTag, idx |-> rIdx, later |-> rLater]
NoReads == Reads3("none", "none", "none")

Idle(op) ==
  [op |-> op, force |-> FALSE, dirOk |-> TRUE, out |-> "ok",
   gone |-> FALSE, reads |-> NoReads,
   resp |-> TransportError, wIdx |-> "none", wTag |-> "none",
   result |-> Err("none"), source |-> "none", reqs |-> 0, sent |-> NoTag,
   wroteIndex |-> FALSE, wroteEtag |-> FALSE]

\* The cache directory is created empty (cache.rs, Cache::new).
Init ==
  /\ indexFile = NoIndexFile
  /\ etagFile = NoEtagFile
  /\ pairedTag = NoTag
  /\ last = Idle("init")

\* The token of the response that the bytes of the index file came from,
\* after a call: that of the answer stored, none when the file was left
\* truncated or was removed.
Paired(paired, out, gone, resp, wIdx) ==
  IF out.wroteIndex /\ wIdx = "ok" THEN resp.etag
  ELSE IF out.wroteIndex /\ wIdx = "truncated" THEN NoTag
  ELSE IF gone THEN NoTag
  ELSE paired

\* Cache::new() (cache.rs, lines 10-18) fails when there is no cache
\* directory to name or when create_dir_all fails, which it can do
\* whatever the directory holds (a directory that cannot be searched).
DirOutcomes == BOOLEAN

\* What the environment of load_or_fetch is drawn from: the answers of the
\* server, the outcomes of the two writes, whether the index file can be
\* removed while the request waits, whether a println! can panic, and the
\* outcomes of a read of a file that exists.
SyncWorld(resps, idxWrites, tagWrites, removals, panics, reads) ==
  [resps |-> resps, idxWrites |-> idxWrites, tagWrites |-> tagWrites,
   removals |-> removals, panics |-> panics, reads |-> reads]

AnySync == SyncWorld(Responses, IndexWrites, TagWrites, BOOLEAN, BOOLEAN, FileReads)

\* The environment of one call.  A part the call does not consult is
\* recorded as a fixed value.
SyncEnv(dirOk, out, gone, reads, resp, text, wIdx, wTag) ==
  [dirOk |-> dirOk, out |-> out, gone |-> gone, reads |-> reads, resp |-> resp,
   text |-> text, wIdx |-> wIdx, wTag |-> wTag]

\* The environments of a call once the request has been answered with resp:
\* every removal, and then every read of the index file (lines 71, 87) or
\* every outcome of the two writes (lines 77-81).
AnsweredEnvs(w, idx, rTag, rIdx, resp) ==
  LET f == Fetch(resp)
      removals == {FALSE} \cup {g \in w.removals : idx.exists}
  IN IF ~(f.ok /\ f.updated)
     THEN UNION {
            UNION {
              {SyncEnv(TRUE, o, gone, Reads3(rTag, rIdx, rLater), resp, NotJson,
                       "none", "none") :
                 rLater \in IF idx.exists /\ ~gone /\ o = "ok"
                            THEN w.reads ELSE {"none"}} :
              o \in {"ok"} \cup IF f.ok /\ TRUE \in w.panics THEN {"L32"} ELSE {}} :
            gone \in removals}
     ELSE UNION {
            UNION {
              UNION {
                {SyncEnv(TRUE, "ok", gone, Reads3(rTag, rIdx, "none"), resp, text,
                         wIdx, wTag) :
                   wTag \in IF wIdx = "ok" /\ f.new_etag # NoTag
                            THEN w.tagWrites ELSE {"none"}} :
                text \in IF wIdx = "ok" THEN Encodings(f.index) ELSE {NotJson}} :
              wIdx \in w.idxWrites} :
            gone \in removals}

\* The environments of one call of load_or_fetch(url, force) that finds the
\* files idx and tag, in a world w: those that differ in a part the call
\* consults.
SyncEnvs(w, force, idx, tag) ==
  {SyncEnv(FALSE, "ok", FALSE, NoReads, TransportError, NotJson, "none", "none")}
    \cup UNION {
           UNION {
             IF CacheHit(force, idx, rIdx)
             THEN {SyncEnv(TRUE, "ok", FALSE, Reads3(rTag, rIdx, "none"),
                           TransportError, NotJson, "none", "none")}
             ELSE (IF TRUE \in w.panics
                   THEN {SyncEnv(TRUE, "L20", FALSE, Reads3(rTag, rIdx, "none"),
                                 TransportError, NotJson, "none", "none")}
                   ELSE {})
                    \cup UNION {AnsweredEnvs(w, idx, rTag, rIdx, resp) :
                                  resp \in w.resps} :
             rIdx \in IF ~force /\ idx.exists THEN w.reads ELSE {"none"}} :
           rTag \in IF idx.exists /\ tag.exists THEN w.reads ELSE {"none"}}

\* The call in the environment e, on the files idx and tag.
SyncOf(force, e, idx, tag) ==
  Sync(force, e.dirOk, e.out, e.gone, e.reads.tag, e.reads.idx, e.reads.later,
       idx, tag, e.resp, e.text, e.wIdx, e.wTag)

\* One call with its environment fixed: the outcome applied to the files,
\* the call recorded.
SyncStep(force, e) ==
  \E out \in {SyncOf(force, e, indexFile, etagFile)} :
    /\ indexFile' = out.indexFile
    /\ etagFile' = out.etagFile
    /\ pairedTag' = Paired(pairedTag, out, e.gone, e.resp, e.wIdx)
    /\ last' = [op |-> "sync", force |-> force,
                dirOk |-> e.dirOk, out |-> e.out, gone |-> e.gone, reads |-> e.reads,
                resp |-> e.resp, wIdx |-> e.wIdx, wTag |-> e.wTag,
                result |-> out.result, source |-> out.source, reqs |-> out.reqs,
                sent |-> out.sent, wroteIndex |-> out.wroteIndex,
                wroteEtag |-> out.wroteEtag]

\* One call of Index::load_or_fetch(url, force) in a world w.
SyncIn(w, force) ==
  \E e \in SyncEnvs(w, force, indexFile, etagFile) : SyncStep(force, e)

LoadOrFetch(force) == SyncIn(AnySync, force)

\* main.rs, lines 73-81: the caller takes the result of the call; a run
\* that only synchronizes ends here.
Returned ==
  /\ last.op = "sync"
  /\ last' = [Idle("returned") EXCEPT !.result = last.result, !.source = last.source]
  /\ UNCHANGED <<indexFile, etagFile, pairedTag>>

\* The index file is removed from outside (the cache cleaned by hand); the
\* token file stays behind.
ClearIndexFile ==
  /\ indexFile.exists
  /\ indexFile' = NoIndexFile
  /\ pairedTag' = NoTag
  /\ last' = Idle("clear")
  /\ UNCHANGED etagFile

(***************************************************************************)
(* xbps/diff.rs: review_changes.                                           *)
(*                                                                         *)
(* A template is a text; the cached copy of a package is there or not.     *)
(* A line typed at the prompt is the sequence of its characters.           *)
(***************************************************************************)
TemplateTexts == {"A\nB\n", "A\nC\n"}
NoTemplate == [some |-> FALSE, text |-> ""]
SomeTemplate(t) == [some |-> TRUE, text |-> t]

\* The two files review_changes writes for diff: temp_dir()/<pkg>.old, .new
OldFile(pkg) == [pkg |-> pkg, side |-> "old"]
NewFile(pkg) == [pkg |-> pkg, side |-> "new"]

\* The characters of the Unicode property White_Space that the model
\* types: space, tab, line feed, carriage return, vertical tab ("VT"), form
\* feed and no-break space ("NBSP").
Whitespace == {" ", "\t", "\n", "\r", "VT", "\f", "NBSP"}

\* str::trim: drop the white space at both ends.
RECURSIVE TrimStart(_)
TrimStart(s) ==
  IF s # <<>> /\ Head(s) \in Whitespace THEN TrimStart(Tail(s)) ELSE s

RECURSIVE TrimEnd(_)
TrimEnd(s) ==
  IF s # <<>> /\ s[Len(s)] \in Whitespace
  THEN TrimEnd(SubSeq(s, 1, Len(s) - 1)) ELSE s

Trim(s) == TrimEnd(TrimStart(s))

\* str::to_lowercase, on the letters the model types.
LowerChar(c) ==
  CASE c = "Y" -> "y" [] c = "E" -> "e" [] c = "S" -> "s"
    [] c = "N" -> "n" [] c = "O" -> "o" [] OTHER -> c

ToLowercase(s) == [i \in DOMAIN s |-> LowerChar(s[i])]

\* diff.rs, lines 82-84: input == "" || input == "y" || input == "yes",
\* of the trimmed, lower-cased line.
Affirmative(input) ==
  ToLowercase(Trim(input)) \in {<<>>, <<"y">>, <<"y", "e", "s">>}

\* What read_line can leave in the buffer.
Lines ==
  {<<"\n">>, <<"y", "\n">>, <<"Y", "\n">>, <<"y", "e", "s", "\n">>,
   <<" ", "Y", "e", "S", "\t", "\n">>, <<"y">>,
   <<"n", "\n">>, <<"N", "O", "\n">>, <<"y", "e", "\n">>,
   <<"y", " ", "e", "s", "\n">>, <<"y", "e", "s", "s", "\n">>,
   <<"y", "\r", "\n">>, <<"VT", "y", "\f", "\n">>, <<"y", "NBSP", "\n">>,
   <<"y", "\r", "e", "s", "\n">>}

\* io::stdin().read_line: a line; Ok(0) at end of input, the buffer left
\* empty; or an error.
Reads ==
  [kind : {"line"}, line : Lines]
    \cup {[kind |-> "eof", line |-> <<>>], [kind |-> "error", line |-> <<>>]}

\* Outcomes of fs::write on a file of the temporary directory: written;
\* refused, no file made; the file made and the write failed.
TmpWrites == {"ok", "failed", "partial"}

\* Everything review_changes asks of its environment.  A part the call does
\* not reach is recorded as "none".
\*   out    the first println! that cannot write to the standard output and
\*          panics: "first" (line 27, 32 or 58), "L51" (after diff), or "ok"
\*   w1 w2  the writes of <pkg>.old and <pkg>.new
\*   diff   "ran" (diff printed the differences), "trouble" (diff ended
\*          without printing them), "spawn_failed" (diff was not started)
\*   rm1 rm2  the removals of the two files
\*   less   the pager: "ok" (it took the text and showed it), "trouble" (it
\*          took the text and ended without showing it; its exit status is
\*          not looked at), "spawn_failed" (it was not started),
\*          "write_failed" (it did not take the text)
\*   wait   child.wait() on the pager: "ok" or "failed", whatever the pager
\*          did with the text
\*   flush  stdout().flush() after print! of the prompt
\*   read   read_line
ReviewEnv(out, w1, w2, diff, rm1, rm2, less, wait, flush, read) ==
  [out |-> out, w1 |-> w1, w2 |-> w2, diff |-> diff, rm1 |-> rm1, rm2 |-> rm2,
   less |-> less, wait |-> wait, flush |-> flush, read |-> read]

NoRead == [kind |-> "none", line |-> <<>>]

\* The three presentations (diff.rs, lines 25-63).
Presentation_Confused(current, previous) ==
  IF ~previous.some THEN "full" ELSE "unchanged"

Presentation(current, previous) ==
  IF previous.some
  THEN IF previous.text = current THEN "unchanged" ELSE "diff"
  ELSE "full"

\* What a call of review_changes did: ok with its decision, or its error
\* ("panic": no result, the process ended); what it chose to show, whether
\* the content or the differences were shown, whether the prompt was
\* printed; the temporary directory as it leaves it and the files it made.
Reviewed(ok, decision, err, shown, rendered, prompted, tmp, created) ==
  [ok |-> ok, decision |-> decision, err |-> err, shown |-> shown,
   rendered |-> rendered, prompted |-> prompted, tmp |-> tmp, created |-> created]

\* diff.rs, lines 76-84: the prompt.
Prompt(shown, rendered, env, tmp, created) ==
  IF env.flush # "ok"
  THEN Reviewed(FALSE, FALSE, "flush", shown, rendered, TRUE, tmp, created)
  ELSE IF env.read.kind = "error"
       THEN Reviewed(FALSE, FALSE, "read_line", shown, rendered, TRUE, tmp, created)
       ELSE Reviewed(TRUE, Affirmative(env.read.line), "none", shown, rendered, TRUE,
                     tmp, created)

\* diff.rs, lines 35-55: write <pkg>.old and <pkg>.new, run diff, print the
\* closing line, remove the two files.  A failed write returns at once; the
\* result of diff and those of remove_file are ignored; the println! of
\* line 51 panics when it cannot write, before the removals.
RenderDiff(pkg, env, tmp) ==
  LET made1 == IF env.w1 = "failed" THEN {} ELSE {OldFile(pkg)}
      made2 == IF env.w2 = "failed" THEN {} ELSE {NewFile(pkg)}
      gone1 == IF env.rm1 = "ok" THEN {OldFile(pkg)} ELSE {}
      gone2 == IF env.rm2 = "ok" THEN {NewFile(pkg)} ELSE {}
  IN IF env.w1 # "ok"
     THEN [ok |-> FALSE, err |-> "tmp_write", rendered |-> FALSE,
           tmp |-> tmp \cup made1, created |-> made1]
     ELSE IF env.w2 # "ok"
          THEN [ok |-> FALSE, err |-> "tmp_write", rendered |-> FALSE,
                tmp |-> tmp \cup made1 \cup made2, created |-> made1 \cup made2]
          ELSE IF env.out = "L51"
          THEN [ok |-> FALSE, err |-> "panic", rendered |-> env.diff = "ran",
                tmp |-> tmp \cup made1 \cup made2, created |-> made1 \cup made2]
          ELSE [ok |-> TRUE, err |-> "none", rendered |-> env.diff = "ran",
                tmp |-> ((tmp \cup made1 \cup made2) \ gone1) \ gone2,
                created |-> made1 \cup made2]

\* diff.rs, lines 24-84.  In the full view the ? of lines 64-73 returns the
\* error of the pager before the prompt: less not started (line 67), the
\* text not taken (line 70), child.wait failing (line 73).  Whether the text
\* was shown is the pager's doing and does not depend on the wait.
ReviewChanges(pkg, current, previous, env, tmp) ==
  LET shown == Presentation(current, previous)
  IN IF env.out = "first"
     THEN Reviewed(FALSE, FALSE, "panic", shown, FALSE, FALSE, tmp, {})
     ELSE
       CASE shown = "unchanged" -> Prompt(shown, FALSE, env, tmp, {})
         [] shown = "diff" ->
              LET d == RenderDiff(pkg, env, tmp)
              IN IF d.ok
                 THEN Prompt(shown, d.rendered, env, d.tmp, d.created)
                 ELSE Reviewed(FALSE, FALSE, d.err, shown, d.rendered, FALSE,
                               d.tmp, d.created)
         [] OTHER ->
              IF env.less \in {"spawn_failed", "write_failed"}
              THEN Reviewed(FALSE, FALSE, env.less, shown, FALSE, FALSE, tmp, {})
              ELSE IF env.wait # "ok"
                   THEN Reviewed(FALSE, FALSE, "wait_failed", shown,
                                 env.less = "ok", FALSE, tmp, {})
                   ELSE Prompt(shown, env.less = "ok", env, tmp, {})

\* The environments that differ in a part the call consults.
PromptEnvs(w1, w2, diff, rm1, rm2, less, wait) ==
  {ReviewEnv("ok", w1, w2, diff, rm1, rm2, less, wait, "failed", NoRead)}
    \cup {ReviewEnv("ok", w1, w2, diff, rm1, rm2, less, wait, "ok", r) :
            r \in Reads}

\* What the pager can do with the text it took.
LessOutcomes == {"ok", "trouble"}

DiffOutcomes == {"ran", "trouble", "spawn_failed"}

ReviewEnvs(shown) ==
  {ReviewEnv("first", "none", "none", "none", "none", "none", "none", "none",
             "none", NoRead)}
    \cup
  CASE shown = "unchanged" ->
         PromptEnvs("none", "none", "none", "none", "none", "none", "none")
    [] shown = "diff" ->
         {ReviewEnv("ok", w1, "none", "none", "none", "none", "none", "none",
                    "none", NoRead) : w1 \in TmpWrites \ {"ok"}}
           \cup {ReviewEnv("ok", "ok", w2, "none", "none", "none", "none", "none",
                           "none", NoRead) : w2 \in TmpWrites \ {"ok"}}
           \cup {ReviewEnv("L51", "ok", "ok", d, "none", "none", "none", "none",
                           "none", NoRead) : d \in DiffOutcomes}
           \cup UNION {PromptEnvs("ok", "ok", d, r1, r2, "none", "none") :
                         d \in DiffOutcomes,
                         r1 \in {"ok", "failed"}, r2 \in {"ok", "failed"}}
    [] OTHER ->
         {ReviewEnv("ok", "none", "none", "none", "none", "none", l, "none",
                    "none", NoRead) : l \in {"spawn_failed", "write_failed"}}
           \cup {ReviewEnv("ok", "none", "none", "none", "none", "none", l,
                           "failed", "none", NoRead) : l \in LessOutcomes}
           \cup UNION {PromptEnvs("none", "none", "none", "none", "none", l, "ok") :
                         l \in LessOutcomes}

(***************************************************************************)
(* The record of the last call and the state of a run that has not begun. *)
(***************************************************************************)
NoReview == Reviewed(FALSE, FALSE, "none", "none", FALSE, FALSE, {}, {})
NoEnv ==
  ReviewEnv("ok", "none", "none", "none", "none", "none", "none", "none", "none",
            NoRead)

NoCall ==
  [op |-> "none", pkg |-> "", current |-> "", previous |-> NoTemplate,
   env |-> NoEnv, review |-> NoReview]

\* Result<(), anyhow::Error> of install, upgrade and main.
Done == "ok"
Failed == "error"
\* No result: a println! or eprintln! panicked and the process ended.
Panicked == "panic"

\* A run of main: what was asked, whether the index was loaded, the index,
\* the packages to process and what was done for each so far.
NoRun ==
  [mode |-> "none", status |-> "none", loaded |-> FALSE, index |-> EmptyIndex,
   pkgs |-> <<>>, log |-> <<>>]

NoSearch == [op |-> "none", index |-> EmptyIndex, query |-> <<>>, results |-> <<>>]

RunVarsIdle ==
  /\ templates = [n \in Names |-> NoTemplate]
  /\ tmpFiles = {}
  /\ run = NoRun
  /\ call = NoCall
  /\ searched = NoSearch

\* One call of review_changes, its arguments drawn from the texts.
Review ==
  /\ call.op = "none"
  /\ \E pkg \in Names, current \in TemplateTexts,
        previous \in {NoTemplate} \cup {SomeTemplate(t) : t \in TemplateTexts} :
       \E env \in ReviewEnvs(Presentation(current, previous)) :
         \E r \in {ReviewChanges(pkg, current, previous, env, tmpFiles)} :
           /\ call' = [op |-> "review", pkg |-> pkg, current |-> current,
                       previous |-> previous, env |-> env, review |-> r]
           /\ tmpFiles' = r.tmp
  /\ UNCHANGED <<templates, run, searched, vars>>

\* Nothing cached, nothing run.
InitAll == Init /\ RunVarsIdle

SpecReview == InitAll /\ [][Review]_allVars

(***************************************************************************)
(* index.rs: Index::search.  A name and a query are the sequences of       *)
(* their characters.                                                       *)
(***************************************************************************)
MaxQuery == 2

\* The characters of a package name.
Chars(n) ==
  CASE n = "foo" -> <<"f", "o", "o">>
    [] n = "bar" -> <<"b", "a", "r">>
    [] OTHER -> <<>>

QueryChars == {"a", "o", "r", "x"}
Queries == UNION {[1..n -> QueryChars] : n \in 0..MaxQuery}

\* str::contains: q occurs in s; the empty q occurs in every s.
Contains(s, q) ==
  \E i \in 0..(Len(s) - Len(q)) : SubSeq(s, i + 1, i + Len(q)) = q

\* HashMap::iter: the entries once each, in an order the hasher decides.
IterOrders(index) ==
  {o \in [1..Cardinality(DOMAIN index) -> DOMAIN index] :
     \A i, j \in DOMAIN o : i # j => o[i] # o[j]}

\* Iterator::filter(...).collect(): the entries of the order whose name
\* contains the query, in that order.
RECURSIVE Filter(_, _, _)
Filter(index, order, query) ==
  IF order = <<>> THEN <<>>
  ELSE IF Contains(Chars(Head(order)), query)
       THEN <<[name |-> Head(order), info |-> index[Head(order)]]>>
              \o Filter(index, Tail(order), query)
       ELSE Filter(index, Tail(order), query)

\* index.rs, lines 97-102: Index::search.
IndexSearch(index, query, order) == Filter(index, order, query)

\* One call of Index::search, on an index and a query drawn from the sets.
Search ==
  /\ searched.op = "none"
  /\ \E index \in Indexes, query \in Queries :
       \E order \in IterOrders(index) :
         searched' = [op |-> "search", index |-> index, query |-> query,
                      results |-> IndexSearch(index, query, order)]
  /\ UNCHANGED <<templates, tmpFiles, run, call, vars>>

SpecSearch == InitAll /\ [][Search]_allVars

\* Calls of load_or_fetch one after another, each returned before the next.
Synchronize ==
  /\ last.op # "sync"
  /\ \E force \in BOOLEAN : LoadOrFetch(force)

Next ==
  \/ Synchronize /\ UNCHANGED runVars
  \/ Returned /\ UNCHANGED runVars
  \/ ClearIndexFile /\ UNCHANGED runVars

Spec == InitAll /\ [][Next]_allVars

(***************************************************************************)
(* xbps/install.rs, xbps/upgrade.rs and the loop of main.                  *)
(***************************************************************************)
MaxPkgs == 2
MaxLines == 2

\* What fs::write leaves of a template when it fails half way.
TruncatedText == "A\n"

\* The answers to the request for a template: no answer, a status with a
\* body, or an answer whose body cannot be read.
TemplateResponses ==
  {[kind |-> "transport_error", status |-> 0, text |-> ""],
   [kind |-> "http", status |-> 404, text |-> "Not Found"],
   [kind |-> "body_error", status |-> 200, text |-> ""]}
    \cup {[kind |-> "http", status |-> 200, text |-> t] : t \in TemplateTexts}

\* StatusCode::is_success
IsSuccess(status) == status >= 200 /\ status < 300

\* A fetch that takes the body of any answer for the template.
FetchTemplate_IgnoresStatus(resp) ==
  IF resp.kind = "transport_error" THEN [ok |-> FALSE, text |-> ""]
  ELSE IF resp.kind = "body_error" THEN [ok |-> FALSE, text |-> ""]
  ELSE [ok |-> TRUE, text |-> resp.text]

\* diff.rs, lines 6-21: fetch_template.
FetchTemplate(resp) ==
  IF resp.kind = "transport_error" THEN [ok |-> FALSE, text |-> ""]
  ELSE IF ~IsSuccess(resp.status) THEN [ok |-> FALSE, text |-> ""]
  ELSE IF resp.kind = "body_error" THEN [ok |-> FALSE, text |-> ""]
  ELSE [ok |-> TRUE, text |-> resp.text]

\* cache.rs, lines 26-33: get_template; a file that cannot be read is no
\* template.
GetTemplate(file, read) ==
  IF file.some
  THEN IF read = "ok" THEN SomeTemplate(file.text) ELSE NoTemplate
  ELSE NoTemplate

\* A save that stores something else than the text it was given.
SaveTemplate_WritesOther(file, text, outcome) ==
  CASE outcome = "ok" -> SomeTemplate(TruncatedText)
    [] outcome = "truncated" -> SomeTemplate(TruncatedText)
    [] OTHER -> file

\* cache.rs, lines 36-39: save_template, fs::write on the template file.
SaveTemplate(file, text, outcome) ==
  CASE outcome = "ok" -> SomeTemplate(text)
    [] outcome = "truncated" -> SomeTemplate(TruncatedText)
    [] OTHER -> file

SaveOutcomes == {"ok", "failed", "truncated"}

\* Command::status of xbps-install: not started, or its exit.
InstallerOutcomes == {"spawn_failed", "success", "failure"}

\* What one call of install, or one turn of the loop of upgrade, did: the
\* answer to the request for the template, how the cached copy was read, the
\* text fetched, the presentation, the prompt and its answer, the write of
\* the cache, the installer, whether a failure was printed, and the print
\* that panicked ("ok": none).  What was not reached is "none".
NoAnswer == [kind |-> "none", status |-> 0, text |-> ""]

NoEvent(pkg) ==
  [pkg |-> pkg, result |-> "none", status |-> Failed, answer |-> NoAnswer,
   read |-> "none", fetched |-> "", shown |-> "none", prompted |-> FALSE,
   confirmed |-> FALSE, saved |-> "none", installer |-> "none",
   reported |-> FALSE, out |-> "ok"]

\* The call ended in a panic of the print at the place given.
PanicAt(ev, place) ==
  [ev EXCEPT !.result = "panic", !.status = Panicked, !.out = place]

Installed(ev, tpl, tmp) == [event |-> ev, templates |-> tpl, tmpFiles |-> tmp]

\* The environment of install.  out is the first println! of install.rs that
\* cannot write to the standard output and panics: "L13", "L18", "L25",
\* "L32", or "ok".  read is the read of the cached copy by get_template
\* (line 22), review what the call of review_changes (line 24) on the text
\* fetched and the copy read did: one of ReviewResults.
InstallEnv(out, dir, resp, read, review, save, installer) ==
  [out |-> out, dir |-> dir, resp |-> resp, read |-> read, review |-> review,
   save |-> save, installer |-> installer]

\* An install that goes on whatever the user answered.
Install_IgnoresAnswer(pkg, index, e, tpl, tmp) ==
  IF pkg \notin DOMAIN index
  THEN Installed([NoEvent(pkg) EXCEPT !.result = "not_found"], tpl, tmp)
  ELSE IF e.out = "L13"
  THEN Installed(PanicAt(NoEvent(pkg), "L13"), tpl, tmp)
  ELSE IF e.dir # "ok"
  THEN Installed([NoEvent(pkg) EXCEPT !.result = "cache_dir"], tpl, tmp)
  ELSE IF e.out = "L18"
  THEN Installed(PanicAt(NoEvent(pkg), "L18"), tpl, tmp)
  ELSE
    LET f == FetchTemplate(e.resp)
        r == e.review
        saved == [tpl EXCEPT ![pkg] = SaveTemplate(tpl[pkg], f.text, e.save)]
        fev == [NoEvent(pkg) EXCEPT !.answer = e.resp]
        rev == [fev EXCEPT !.fetched = f.text, !.read = e.read, !.shown = r.shown,
                           !.prompted = r.prompted,
                           !.confirmed = r.ok /\ r.decision]
        sev == [rev EXCEPT !.saved = e.save]
        iev == [sev EXCEPT !.installer = e.installer]
    IN IF ~f.ok
       THEN Installed([fev EXCEPT !.result = "fetch_failed"], tpl, tmp)
       ELSE IF r.err = "panic"
       THEN Installed(PanicAt(rev, "review"), tpl, r.tmp)
       ELSE IF ~r.ok
       THEN Installed([rev EXCEPT !.result = "review_failed"], tpl, r.tmp)
       ELSE IF ~r.decision
       THEN Installed([rev EXCEPT !.result = "installed", !.status = Done,
                                  !.saved = "ok", !.installer = "success"],
                      [tpl EXCEPT ![pkg] = SomeTemplate(f.text)], r.tmp)
       ELSE IF e.save # "ok"
       THEN Installed([sev EXCEPT !.result = "save_failed"], saved, r.tmp)
       ELSE IF e.out = "L32"
       THEN Installed(PanicAt(sev, "L32"), saved, r.tmp)
       ELSE IF e.installer = "spawn_failed"
       THEN Installed([iev EXCEPT !.result = "spawn_failed"], saved, r.tmp)
       ELSE IF e.installer = "failure"
       THEN Installed([iev EXCEPT !.result = "installer_failed"], saved, r.tmp)
       ELSE Installed([iev EXCEPT !.result = "installed", !.status = Done],
                      saved, r.tmp)

\* install.rs, lines 7-48: install(package, index).
Install(pkg, index, e, tpl, tmp) ==
  IF pkg \notin DOMAIN index
  THEN Installed([NoEvent(pkg) EXCEPT !.result = "not_found"], tpl, tmp)
  ELSE IF e.out = "L13"
  THEN Installed(PanicAt(NoEvent(pkg), "L13"), tpl, tmp)
  ELSE IF e.dir # "ok"
  THEN Installed([NoEvent(pkg) EXCEPT !.result = "cache_dir"], tpl, tmp)
  ELSE IF e.out = "L18"
  THEN Installed(PanicAt(NoEvent(pkg), "L18"), tpl, tmp)
  ELSE
    LET f == FetchTemplate(e.resp)
        r == e.review
        saved == [tpl EXCEPT ![pkg] = SaveTemplate(tpl[pkg], f.text, e.save)]
        fev == [NoEvent(pkg) EXCEPT !.answer = e.resp]
        rev == [fev EXCEPT !.fetched = f.text, !.read = e.read, !.shown = r.shown,
                           !.prompted = r.prompted,
                           !.confirmed = r.ok /\ r.decision]
        sev == [rev EXCEPT !.saved = e.save]
        iev == [sev EXCEPT !.installer = e.installer]
    IN IF ~f.ok
       THEN Installed([fev EXCEPT !.result = "fetch_failed"], tpl, tmp)
       ELSE IF r.err = "panic"
       THEN Installed(PanicAt(rev, "review"), tpl, r.tmp)
       ELSE IF ~r.ok
       THEN Installed([rev EXCEPT !.result = "review_failed"], tpl, r.tmp)
       ELSE IF ~r.decision
       THEN IF e.out = "L25"
            THEN Installed(PanicAt(rev, "L25"), tpl, r.tmp)
            ELSE Installed([rev EXCEPT !.result = "aborted_by_user", !.status = Done],
                           tpl, r.tmp)
       ELSE IF e.save # "ok"
       THEN Installed([sev EXCEPT !.result = "save_failed"], saved, r.tmp)
       ELSE IF e.out = "L32"
       THEN Installed(PanicAt(sev, "L32"), saved, r.tmp)
       ELSE IF e.installer = "spawn_failed"
       THEN Installed([iev EXCEPT !.result = "spawn_failed"], saved, r.tmp)
       ELSE IF e.installer = "failure"
       THEN Installed([iev EXCEPT !.result = "installer_failed"], saved, r.tmp)
       ELSE Installed([iev EXCEPT !.result = "installed", !.status = Done],
                      saved, r.tmp)

\* The copies get_template can hand to review_changes, and the files the
\* reviews can leave in the temporary directory.
CachedTemplates ==
  {NoTemplate} \cup {SomeTemplate(t) : t \in TemplateTexts \cup {TruncatedText}}
TempFiles == {OldFile(n) : n \in Names} \cup {NewFile(n) : n \in Names}

\* What review_changes(pkg, current, previous) can do with the temporary
\* directory holding tmp: its result in every environment, for every text
\* an answer to the request for the template can carry.  (f @@ <<>> is f as
\* an explicit function: the table is computed once.)
ReviewResults ==
  [pkg \in Names, current \in {q.text : q \in TemplateResponses},
   previous \in CachedTemplates,
   tmp \in SUBSET TempFiles |->
     {ReviewChanges(pkg, current, previous, env, tmp) :
        env \in ReviewEnvs(Presentation(current, previous))}] @@ <<>>

\* The environments of install after the template was fetched and reviewed.
AfterReview(r, resp, rd) ==
  IF r.ok /\ r.decision
  THEN {InstallEnv("ok", "ok", resp, rd, r, sv, "none") :
          sv \in SaveOutcomes \ {"ok"}}
         \cup {InstallEnv("L32", "ok", resp, rd, r, "ok", "none")}
         \cup {InstallEnv("ok", "ok", resp, rd, r, "ok", x) :
                 x \in InstallerOutcomes}
  ELSE IF r.ok
  THEN {InstallEnv(o, "ok", resp, rd, r, "none", "none") : o \in {"ok", "L25"}}
  ELSE {InstallEnv("ok", "ok", resp, rd, r, "none", "none")}

\* The environments of one call of install that differ in a part the call
\* consults.
InstallEnvs(pkg, index, tpl, tmp) ==
  IF pkg \notin DOMAIN index
  THEN {InstallEnv("ok", "none", NoAnswer, "none", NoReview, "none", "none")}
  ELSE
    {InstallEnv("L13", "none", NoAnswer, "none", NoReview, "none", "none"),
     InstallEnv("ok", "failed", NoAnswer, "none", NoReview, "none", "none"),
     InstallEnv("L18", "ok", NoAnswer, "none", NoReview, "none", "none")}
      \cup UNION {
             IF ~FetchTemplate(resp).ok
             THEN {InstallEnv("ok", "ok", resp, "none", NoReview, "none", "none")}
             ELSE UNION {
                    UNION {
                      AfterReview(r, resp, rd) :
                      r \in ReviewResults[pkg, FetchTemplate(resp).text,
                                          GetTemplate(tpl[pkg], rd), tmp]} :
                    rd \in IF tpl[pkg].some THEN {"ok", "failed"} ELSE {"none"}} :
             resp \in TemplateResponses}

PackageLists == UNION {[1..n -> Names] : n \in 1..MaxPkgs}

\* The server of the runs: no answer, 304, or one of two indexes with a
\* token; the disk and the standard output of the runs are any.
RunResponses ==
  {TransportError, NotModified}
    \cup {[kind |-> "http", status |-> 200, body |-> JsonOf(m), etag |-> 1] :
            m \in {<<[name |-> "foo", version |-> 1, complete |-> TRUE]>>,
                   <<[name |-> "foo", version |-> 1, complete |-> TRUE],
                     [name |-> "bar", version |-> 1, complete |-> TRUE]>>}}

\* The indexes a run can load: those the server of the runs serves.
RunIndexes ==
  {Decode(r.body).index :
     r \in {q \in RunResponses : q.kind = "http" /\ q.status = 200}}

\* What install(pkg, &index) can do with the template cache tpl and the
\* temporary directory tmp: its outcome in every environment.
InstallOutcomes ==
  [pkg \in Names, index \in RunIndexes, tpl \in [Names -> CachedTemplates],
   tmp \in SUBSET TempFiles |->
     {Install(pkg, index, e, tpl, tmp) :
        e \in InstallEnvs(pkg, index, tpl, tmp)}] @@ <<>>

RunSync ==
  SyncWorld(RunResponses, IndexWrites, TagWrites, BOOLEAN, BOOLEAN, FileReads)

\* What a call of load_or_fetch leaves to the run: the files and the result.
Load(force, e, idx, tag, paired) ==
  LET out == SyncOf(force, e, idx, tag)
  IN [indexFile |-> out.indexFile, etagFile |-> out.etagFile,
      pairedTag |-> Paired(paired, out, e.gone, e.resp, e.wIdx),
      result |-> out.result]

\* main.rs, lines 64 and 73: Index::load_or_fetch(INDEX_URL, cli.sync), with
\* or without --sync, in every environment of the world w.
Loads(w, idx, tag, paired) ==
  UNION {{Load(force, e, idx, tag, paired) : e \in SyncEnvs(w, force, idx, tag)} :
           force \in BOOLEAN}

\* main.rs, lines 73-76: the index is loaded, or the error is printed with
\* eprintln! and the process exits with 1; a print that panics ends it too.
Loaded(result, errOut) ==
  IF result.ok THEN "running"
  ELSE IF result = Panic \/ errOut = "panic" THEN Panicked
  ELSE Failed

\* A loop that goes on to the next package after an error.
LoopStatus_IgnoresError(status, pos, n) ==
  IF pos = n THEN status ELSE "running"

\* main.rs, lines 88-92: the ? ends the run at an error (a panic ends the
\* process), the loop ends after the last package.
LoopStatus(status, pos, n) ==
  IF status # Done THEN status
  ELSE IF pos = n THEN Done
  ELSE "running"

\* main.rs, lines 64-76 and 88: a run asked to install packages (with or
\* without --sync) loads the index and enters the loop.
StartInstalls ==
  /\ run.mode = "none"
  /\ \E l \in Loads(RunSync, indexFile, etagFile, pairedTag) :
       \E pkgs \in PackageLists :
         \E errOut \in IF l.result.ok THEN {"ok"} ELSE {"ok", "panic"} :
           /\ indexFile' = l.indexFile
           /\ etagFile' = l.etagFile
           /\ pairedTag' = l.pairedTag
           /\ run' = [mode |-> "install", status |-> Loaded(l.result, errOut),
                      loaded |-> l.result.ok, index |-> l.result.index,
                      pkgs |-> pkgs, log |-> <<>>]
  /\ UNCHANGED <<last, templates, tmpFiles, call, searched>>

\* main.rs, lines 88-92: one turn of the loop, install(pkg, &index)?.
InstallNext ==
  /\ run.mode = "install"
  /\ run.status = "running"
  /\ LET pkg == run.pkgs[Len(run.log) + 1]
     IN \E out \in InstallOutcomes[pkg, run.index, templates, tmpFiles] :
          /\ templates' = out.templates
          /\ tmpFiles' = out.tmpFiles
          /\ run' = [run EXCEPT
               !.log = Append(@, out.event),
               !.status = LoopStatus(out.event.status, Len(run.log) + 1,
                                     Len(run.pkgs))]
  /\ UNCHANGED <<vars, call, searched>>

\* upgrade.rs, lines 64-75: version_gt, the exit code of
\* xbps-uhelper cmpver v1 v2 being 1 when v1 is the newer.
CmpVer(v1, v2) == IF v1 > v2 THEN 1 ELSE IF v1 = v2 THEN 0 ELSE 255

VersionGt(v1, v2) == CmpVer(v1, v2) = 1

\* A line of xbps-query -l: "ii <name>-<version> <description>", or a line
\* of fewer than two words.
OldestVersion == 0
ShortLine == [words |-> 1, name |-> "", version |-> OldestVersion]
PkgLine(n, v) == [words |-> 3, name |-> n, version |-> v]
QueryLines ==
  {ShortLine}
    \cup {PkgLine(n, v) : n \in Names, v \in {OldestVersion, 1}}
QueryOutputs == UNION {[1..n -> QueryLines] : n \in 0..MaxLines}

\* upgrade.rs, lines 18-36: the packages of the index that are installed in
\* an older version, in the order of the lines.
RECURSIVE Updates(_, _)
Updates(index, lines) ==
  IF lines = <<>> THEN <<>>
  ELSE LET l == Head(lines)
       IN IF l.words >= 2 /\ l.name \in DOMAIN index
             /\ VersionGt(index[l.name].version, l.version)
          THEN <<l.name>> \o Updates(index, Tail(lines))
          ELSE Updates(index, Tail(lines))

\* The lines whose version is compared.
Compared(index, lines) ==
  {i \in DOMAIN lines : lines[i].words >= 2 /\ lines[i].name \in DOMAIN index}

\* What a turn of the loop of upgrade meets: the println! of line 46
\* panics ("L46"), or the installer is not started, succeeds, fails, or
\* fails and the eprintln! of line 57 panics ("L57").
TurnOutcomes == InstallerOutcomes \cup {"L46", "L57"}

\* upgrade.rs, lines 46-58: one turn of the loop.
UpgradeEvent(pkg, x) ==
  CASE x = "L46" -> PanicAt(NoEvent(pkg), "L46")
    [] x = "spawn_failed" ->
         [NoEvent(pkg) EXCEPT !.result = "spawn_failed", !.installer = x]
    [] x = "failure" ->
         [NoEvent(pkg) EXCEPT !.result = "installer_failed", !.status = Done,
                              !.installer = x, !.reported = TRUE]
    [] x = "L57" ->
         PanicAt([NoEvent(pkg) EXCEPT !.installer = "failure"], "L57")
    [] OTHER ->
         [NoEvent(pkg) EXCEPT !.result = "installed", !.status = Done,
                              !.installer = x]

\* A loop that gives up at the first package whose installer reports failure.
RECURSIVE UpdateLoop_StopsAtFailure(_, _)
UpdateLoop_StopsAtFailure(updates, outs) ==
  IF updates = <<>> THEN <<>>
  ELSE LET ev == UpgradeEvent(Head(updates), Head(outs))
       IN IF Head(outs) = "success"
          THEN <<ev>> \o UpdateLoop_StopsAtFailure(Tail(updates), Tail(outs))
          ELSE <<ev>>

\* upgrade.rs, lines 45-59: the loop over the updates; a failure to start
\* the installer returns, a panic ends the process, a failing exit is
\* printed and the loop goes on.
RECURSIVE UpdateLoop(_, _)
UpdateLoop(updates, outs) ==
  IF updates = <<>> THEN <<>>
  ELSE LET ev == UpgradeEvent(Head(updates), Head(outs))
       IN IF ev.status # Done
          THEN <<ev>>
          ELSE <<ev>> \o UpdateLoop(Tail(updates), Tail(outs))

Upgraded(status, updates, log) ==
  [status |-> status, updates |-> updates, log |-> log]

\* upgrade.rs, lines 5-62: upgrade(index).  e.out is the first println!
\* outside the loop that panics: "L6", "L31" (at the first update found),
\* "L39", "L43", or "ok".
Upgrade(index, e) ==
  IF e.out = "L6" THEN Upgraded(Panicked, <<>>, <<>>)
  ELSE IF e.query # "ok" THEN Upgraded(Failed, <<>>, <<>>)
  ELSE IF e.cmpver # "ok" /\ Compared(index, e.lines) # {}
  THEN Upgraded(Failed, <<>>, <<>>)
  ELSE LET updates == Updates(index, e.lines)
           log == UpdateLoop(updates, e.outs)
       IN IF updates = <<>>
          THEN IF e.out = "L39" THEN Upgraded(Panicked, <<>>, <<>>)
               ELSE Upgraded(Done, <<>>, <<>>)
          ELSE IF e.out = "L31" THEN Upgraded(Panicked, <<>>, <<>>)
          ELSE IF e.out = "L43" THEN Upgraded(Panicked, updates, <<>>)
          ELSE Upgraded(log[Len(log)].status, updates, log)

UpgradeEnv(out, query, lines, cmpver, outs) ==
  [out |-> out, query |-> query, lines |-> lines, cmpver |-> cmpver, outs |-> outs]

\* The outcomes of the turns of a loop of n packages: every turn before the
\* last one met leaves the loop going.
TurnSeqs(n) ==
  UNION {{o \in [1..k -> TurnOutcomes] :
            /\ \A i \in 1..(k - 1) : o[i] \in {"success", "failure"}
            /\ k < n => o[k] \notin {"success", "failure"}} : k \in 1..n}

\* The outcomes of the turns, completed to the length of the updates.
Turns(o, n) == [i \in 1..n |-> IF i <= Len(o) THEN o[i] ELSE "success"]

\* The environments of upgrade that differ in a part the call consults.
UpgradeEnvs(index) ==
  {UpgradeEnv("L6", "none", <<>>, "none", <<>>),
   UpgradeEnv("ok", "failed", <<>>, "none", <<>>)}
    \cup UNION {
           IF Compared(index, lines) = {}
           THEN {UpgradeEnv(o, "ok", lines, "none", <<>>) : o \in {"ok", "L39"}}
           ELSE {UpgradeEnv("ok", "ok", lines, "spawn_failed", <<>>)}
                  \cup (IF Updates(index, lines) = <<>>
                        THEN {UpgradeEnv(o, "ok", lines, "ok", <<>>) : o \in {"ok", "L39"}}
                        ELSE {UpgradeEnv(o, "ok", lines, "ok", <<>>) : o \in {"L31", "L43"}}
                               \cup {UpgradeEnv("ok", "ok", lines, "ok",
                                                Turns(o, Len(Updates(index, lines)))) :
                                       o \in TurnSeqs(Len(Updates(index, lines)))}) :
           lines \in QueryOutputs}

\* What upgrade(&index) can do: its outcome in every environment.
UpgradeOutcomes ==
  [index \in RunIndexes |->
     {Upgrade(index, e) : e \in UpgradeEnvs(index)}] @@ <<>>

\* main.rs, lines 64-76 and 83-86: update all (with or without --sync), the
\* index loaded and xbps::upgrade(&index)?.
UpgradeAll ==
  /\ run.mode = "none"
  /\ \E l \in Loads(RunSync, indexFile, etagFile, pairedTag) :
       /\ indexFile' = l.indexFile
       /\ etagFile' = l.etagFile
       /\ pairedTag' = l.pairedTag
       /\ IF l.result.ok
          THEN \E out \in UpgradeOutcomes[l.result.index] :
                 run' = [mode |-> "upgrade", status |-> out.status,
                         loaded |-> TRUE, index |-> l.result.index,
                         pkgs |-> out.updates, log |-> out.log]
          ELSE \E errOut \in {"ok", "panic"} :
                 run' = [mode |-> "upgrade", status |-> Loaded(l.result, errOut),
                         loaded |-> FALSE, index |-> EmptyIndex,
                         pkgs |-> <<>>, log |-> <<>>]
  /\ UNCHANGED <<last, templates, tmpFiles, call, searched>>

\* main.rs, lines 75, 86, 93 and the ? of lines 84 and 90: main returns or
\* the process is ended.  The files of the cache and of the temporary
\* directory stay as the run left them.
Exit ==
  /\ run.status \in {Done, Failed, Panicked}
  /\ run' = NoRun
  /\ UNCHANGED <<vars, templates, tmpFiles, call, searched>>

\* Runs of main that install the packages named or update all.
NextRun ==
  \/ StartInstalls
  \/ InstallNext
  \/ UpgradeAll
  \/ Exit

SpecRun == InitAll /\ [][NextRun]_allVars

(***************************************************************************)
(* Vocabulary of the properties.  In a step, the unprimed files are the    *)
(* cache as the call found it, the primed ones the cache as it left it,    *)
(* and last' is the record of the call.                                    *)
(***************************************************************************)
\* A call that got its cache directory, that could print, and during which
\* nobody else touched the files; such a call that sent its request.
Called == last'.op = "sync" /\ last'.dirOk /\ ~last'.gone /\ last'.out = "ok"
Requested == Called /\ last'.reqs = 1
\* A call that sent its request, whatever else happened to it.
Sent == last'.op = "sync" /\ last'.reqs = 1
\* The call that went before has returned a result to its caller.
Before == last.op = "returned"
\* The index file could be read before the request, if the call read it.
IndexRead == last'.reads.idx # "failed"
\* No read of a cache file that exists failed in the call.
ReadsOk ==
  /\ last'.reads.tag # "failed"
  /\ last'.reads.idx # "failed"
  /\ last'.reads.later # "failed"
Decodable(file) == file.exists /\ Decode(file.text).ok
CachedIndex(file) == Decode(file.text).index
FilesUntouched ==
  /\ indexFile' = indexFile
  /\ etagFile' = etagFile
  /\ ~last'.wroteIndex
  /\ ~last'.wroteEtag

\* The network attempt failed: a transport error, a status that is neither
\* success nor 304, or a payload that does not decode.
NetFailed(resp) ==
  \/ resp.kind = "transport_error"
  \/ resp.kind = "http" /\ resp.status \notin {200, 304}
  \/ resp.kind = "http" /\ resp.status = 200 /\ ~Decode(resp.body).ok

\* The server is reachable and holds a valid index: it answers 200 with a
\* decodable payload, or 304 to a conditional request.
ServesValidIndex(resp, sent) ==
  /\ resp.kind = "http"
  /\ \/ resp.status = 200 /\ Decode(resp.body).ok
     \/ resp.status = 304 /\ sent # NoTag

(***************************************************************************)
(* C1.  A call without force refresh that finds a decodable index file     *)
(* and reads it returns exactly the cached index, sends no request and     *)
(* writes no file, whether or not the token file can be read; and a call   *)
(* without force refresh that follows a successful call, of whatever kind, *)
(* and reads the index file sends no request and returns the index the     *)
(* first one returned.                                                     *)
(***************************************************************************)
C1_CacheHitIsLocal ==
  [][/\ (Called /\ IndexRead /\ ~last'.force /\ Decodable(indexFile))
        => /\ last'.result = Ok(CachedIndex(indexFile))
           /\ last'.reqs = 0
           /\ FilesUntouched
     /\ (Before /\ last.result.ok /\ Called /\ IndexRead /\ ~last'.force)
        => /\ last'.reqs = 0
           /\ last'.result = last.result]_vars

\* A call without force refresh has answered from a non-empty cache.
C1_Witness ==
  /\ last.op = "sync"
  /\ ~last.force
  /\ last.reqs = 0
  /\ last.result.ok
  /\ DOMAIN last.result.index # {}
  /\ Decodable(indexFile)

(***************************************************************************)
(* C2.  A forced refresh whose network attempt fails while a valid cached  *)
(* index exists returns the cached index and leaves the index file and the *)
(* token file as they were.                                                *)
(***************************************************************************)
C2_FailedRefreshFallsBack ==
  [][(Requested /\ ReadsOk /\ last'.force /\ Decodable(indexFile)
        /\ NetFailed(last'.resp))
       => /\ last'.result = Ok(CachedIndex(indexFile))
          /\ FilesUntouched]_vars

(***************************************************************************)
(* C3.  An answer whose status is neither success nor 304 is a fetch       *)
(* failure whatever its body: it changes neither the index file nor the    *)
(* token file, and its body is not returned as the index.                  *)
(***************************************************************************)
C3_ErrorStatusIsFailure ==
  [][(Requested /\ last'.resp.kind = "http" /\ last'.resp.status \notin {200, 304})
       => /\ FilesUntouched
          /\ last'.source # "network"]_vars

(***************************************************************************)
(* C4.  With no index file, a failed network attempt makes the call fail   *)
(* with "Failed to fetch index and no cache available", and no index file  *)
(* and no token file is created.                                           *)
(***************************************************************************)
C4_NoCacheNoNetworkFails ==
  [][(Requested /\ ~indexFile.exists /\ NetFailed(last'.resp))
       => /\ last'.result = Err("no_cache")
          /\ ~indexFile'.exists
          /\ etagFile' = etagFile
          /\ ~last'.wroteIndex
          /\ ~last'.wroteEtag]_vars

(***************************************************************************)
(* C5.  A forced refresh whose conditional request is answered 304 returns *)
(* what reading and decoding the bytes of the index file gives (the index, *)
(* or the error when they cannot be read or do not decode) and writes      *)
(* neither the index file nor the token file.                              *)
(***************************************************************************)
C5_NotModifiedServesCache ==
  [][(Requested /\ last'.force /\ last'.sent # NoTag /\ last'.resp.status = 304)
       => /\ FilesUntouched
          /\ (Decodable(indexFile) /\ last'.reads.later = "ok")
               => last'.result = Ok(CachedIndex(indexFile))
          /\ (~Decodable(indexFile) \/ last'.reads.later = "failed")
               => ~last'.result.ok]_vars

\* A forced refresh was answered 304 and returned the cached, non-empty index.
C5_Witness ==
  /\ last.op = "sync"
  /\ last.force
  /\ last.sent # NoTag
  /\ last.resp.status = 304
  /\ last.result.ok
  /\ DOMAIN last.result.index # {}
  /\ last.result.index = CachedIndex(indexFile)

(***************************************************************************)
(* C6.  After an answer 200 with a decodable payload, the index file       *)
(* having been written, the call returns the index decoded from the        *)
(* payload and the index file decodes to it, whatever the reads of the     *)
(* call did and even if the file was removed while the request waited; a   *)
(* call without force refresh that follows and reads the index file        *)
(* returns an equal index without a request.                               *)
(***************************************************************************)
C6_FetchedIndexRoundTrips ==
  [][/\ (Sent /\ last'.resp.status = 200 /\ Decode(last'.resp.body).ok
           /\ last'.wIdx = "ok")
        => /\ last'.result = Ok(Decode(last'.resp.body).index)
           /\ Decodable(indexFile')
           /\ CachedIndex(indexFile') = Decode(last'.resp.body).index
     /\ (Before /\ last.source = "network" /\ last.result.ok
           /\ Called /\ IndexRead /\ ~last'.force)
        => /\ last'.reqs = 0
           /\ last'.result = Ok(last.result.index)]_vars

\* An index was fetched from a payload that names "foo" twice: the later
\* member was returned, the index file holds another text than the payload
\* and decodes to the returned index.
C6_Witness ==
  /\ last.op = "sync"
  /\ last.resp.status = 200
  /\ last.source = "network"
  /\ last.result.ok
  /\ Len(last.resp.body.members) = Cardinality(Names)
  /\ DOMAIN last.result.index = {"foo"}
  /\ last.result.index["foo"].version = last.resp.body.members[Len(last.resp.body.members)].version
  /\ last.resp.body.members[1].version # last.result.index["foo"].version
  /\ indexFile.exists
  /\ indexFile.text # last.resp.body
  /\ CachedIndex(indexFile) = last.result.index

(***************************************************************************)
(* C7.  Index and token are replaced as a unit: the token sent on a        *)
(* conditional request is the token received in the response that the      *)
(* stored index bytes came from.                                           *)
(***************************************************************************)
C7_TokenPairedWithIndex ==
  [][(Requested /\ last'.sent # NoTag) => last'.sent = pairedTag]_vars

(***************************************************************************)
(* C8.  In every call that sends a request, If-None-Match is sent only     *)
(* when the index file and the token file both exist, and then it is the   *)
(* stored token; with the index file absent the request is unconditional.  *)
(***************************************************************************)
C8_ConditionalOnlyWithIndex ==
  [][Sent
       => /\ last'.sent # NoTag
             => (indexFile.exists /\ etagFile.exists /\ last'.sent = etagFile.tag)
          /\ ~indexFile.exists => last'.sent = NoTag]_vars

\* A request went out unconditional although a token file was there: the
\* index file was absent.
C8_Witness ==
  /\ last.op = "sync"
  /\ last.reqs = 1
  /\ last.sent = NoTag
  /\ last.result = Err("no_cache")
  /\ etagFile.exists
  /\ ~indexFile.exists

(***************************************************************************)
(* C9.  A payload that comes with status 200 and does not decode leaves    *)
(* the index file and the token file unchanged; the call returns the       *)
(* cached index when there is one (that can be read) and fails otherwise.  *)
(***************************************************************************)
C9_BadPayloadNeverCached ==
  [][(Requested /\ last'.resp.status = 200 /\ ~Decode(last'.resp.body).ok)
       => /\ FilesUntouched
          /\ (Decodable(indexFile) /\ last'.reads.later = "ok")
               => last'.result = Ok(CachedIndex(indexFile))
          /\ (~Decodable(indexFile) \/ last'.reads.later = "failed")
               => ~last'.result.ok
          /\ ~indexFile.exists => last'.result = Err("no_cache")]_vars

\* An undecodable payload arrived and the call returned the cached index.
C9_Witness ==
  /\ last.op = "sync"
  /\ last.reqs = 1
  /\ last.resp.status = 200
  /\ ~Decode(last.resp.body).ok
  /\ last.result.ok
  /\ last.source = "cache"
  /\ DOMAIN last.result.index # {}

(***************************************************************************)
(* C10.  A corrupt index file (present, not decodable) is a cache miss:    *)
(* the call goes to the network, and when the server is reachable and      *)
(* holds a valid index (and the disk takes the write) the call succeeds    *)
(* and leaves a decodable index file.                                      *)
(***************************************************************************)
C10_CorruptCacheRepaired ==
  [][(Called /\ ReadsOk /\ indexFile.exists /\ ~Decode(indexFile.text).ok
        /\ ServesValidIndex(last'.resp, last'.sent)
        /\ last'.wIdx \in {"ok", "none"})
       => /\ last'.reqs = 1
          /\ last'.result.ok
          /\ Decodable(indexFile')]_vars

(***************************************************************************)
(* Vocabulary of the properties of review_changes.                         *)
(***************************************************************************)
ReviewCalled == call.op = "review"
\* The ways a presentation fails: an error of the temporary files or of
\* the pager, or a println! that panics.
RenderErrors == {"tmp_write", "spawn_failed", "write_failed", "wait_failed", "panic"}

(***************************************************************************)
(* C13.  The decision of review_changes is affirmative exactly when the    *)
(* line read, trimmed and lower-cased, is empty, "y" or "yes", and a       *)
(* prompt whose read failed or met the end of input never ends in an       *)
(* affirmative decision.                                                   *)
(***************************************************************************)
C13_DecisionFromLine ==
  (ReviewCalled /\ call.env.read.kind # "none")
    => /\ (call.env.read.kind = "line" /\ call.review.ok)
            => (call.review.decision
                  <=> ToLowercase(Trim(call.env.read.line))
                        \in {<<>>, <<"y">>, <<"y", "e", "s">>})
       /\ call.env.read.kind \in {"eof", "error"}
            => ~(call.review.ok /\ call.review.decision)

(***************************************************************************)
(* C16.  review_changes chooses the full content exactly when there is no  *)
(* previous copy, "unchanged" exactly when the previous copy equals the    *)
(* fetched text, and the diff exactly when they differ; "unchanged" shows  *)
(* no content, a diff that ran and a pager that did its work show theirs, *)
(* whether or not the wait for the pager fails afterwards.                 *)
(***************************************************************************)
OnePresentation ==
  /\ call.review.shown \in {"full", "unchanged", "diff"}
  /\ call.review.shown = "full" <=> ~call.previous.some
  /\ call.review.shown = "unchanged"
       <=> (call.previous.some /\ call.previous.text = call.current)
  /\ call.review.shown = "diff"
       <=> (call.previous.some /\ call.previous.text # call.current)
  /\ call.review.shown = "unchanged" => ~call.review.rendered
  /\ (call.review.shown = "full" /\ call.env.less = "ok")
       => call.review.rendered
  /\ (call.review.shown = "diff" /\ call.env.diff = "ran")
       => call.review.rendered

\* C16 as the claim states it: every call makes its choice and then prompts
\* the user.
C16_AlwaysPrompted ==
  ReviewCalled => (OnePresentation /\ call.review.prompted)

\* C16 with the exits before the prompt: every call makes its choice, and
\* the user is prompted
\* exactly in the calls whose presentation did not fail: a failed write of
\* a temporary file, a pager that cannot be started, fed or waited for, or
\* a println! that panics ends the call before the prompt, with an error
\* and no decision.
C16_OnePresentation ==
  ReviewCalled
    => /\ OnePresentation
       /\ call.review.prompted <=> call.review.err \notin RenderErrors
       /\ call.review.ok => call.review.prompted
       /\ ~call.review.prompted => (~call.review.ok /\ ~call.review.decision)

\* A diff was rendered for two different texts and the prompt answered.
C16_Witness ==
  /\ ReviewCalled
  /\ call.previous.some
  /\ call.previous.text # call.current
  /\ call.review.shown = "diff"
  /\ call.env.diff = "ran"
  /\ call.review.rendered
  /\ call.review.prompted
  /\ call.review.ok

(***************************************************************************)
(* C17.  No temporary file that a call of review_changes created is left   *)
(* in the temporary directory when the call returns.                       *)
(***************************************************************************)
C17_TempFilesRemoved ==
  ReviewCalled => call.review.created \cap tmpFiles = {}

(***************************************************************************)
(* C18.  A request answered 304 writes neither file and returns what the   *)
(* index file holds: its decoded index, and an error, never an index,      *)
(* when the file is missing, cannot be read or does not decode.            *)
(***************************************************************************)
C18_PlaceholderNeverServed ==
  [][(Requested /\ last'.resp.kind = "http" /\ last'.resp.status = 304)
       => /\ FilesUntouched
          /\ last'.result.ok
               => (Decodable(indexFile) /\ last'.reads.later = "ok"
                     /\ last'.result.index = CachedIndex(indexFile))
          /\ (~Decodable(indexFile) \/ last'.reads.later = "failed")
               => ~last'.result.ok]_vars

\* A request was answered 304 with no usable index file, and the call failed.
C18_Witness ==
  /\ last.op = "sync"
  /\ last.reqs = 1
  /\ last.resp.kind = "http"
  /\ last.resp.status = 304
  /\ ~Decodable(indexFile)
  /\ ~last.result.ok

(***************************************************************************)
(* Vocabulary of the properties of install, upgrade and the loop of main.  *)
(***************************************************************************)
\* One call of install was made in this step, and what it did.
InstallStep ==
  /\ run.mode = "install"
  /\ run'.mode = "install"
  /\ Len(run'.log) = Len(run.log) + 1
LastEvent == run.log[Len(run.log)]

\* The request for the template was made and failed.
FetchFailed(answer) ==
  \/ answer.kind \in {"transport_error", "body_error"}
  \/ answer.kind = "http" /\ ~(answer.status >= 200 /\ answer.status < 300)

(***************************************************************************)
(* C11.  When the user was prompted during an install and did not confirm, *)
(* the cached templates are after the call what they were before it, none  *)
(* was written, and the installer was not started.                         *)
(***************************************************************************)
C11_DeclineChangesNothing ==
  [][(InstallStep /\ LastEvent'.prompted /\ ~LastEvent'.confirmed)
       => /\ templates' = templates
          /\ LastEvent'.saved = "none"
          /\ LastEvent'.installer = "none"]_allVars

\* The user declined a template that differs from the cached copy, which
\* is still the old one.
C11_Witness ==
  /\ run.mode = "install"
  /\ run.log # <<>>
  /\ LastEvent.result = "aborted_by_user"
  /\ LastEvent.shown = "diff"
  /\ templates[LastEvent.pkg].some
  /\ templates[LastEvent.pkg].text # LastEvent.fetched

(***************************************************************************)
(* C12.  In every run, install or update-all, the installer is started for *)
(* a package only after that package's fetched template was presented and  *)
(* the user confirmed at the prompt.                                       *)
(***************************************************************************)
C12_ReviewBeforeInstaller ==
  \A i \in DOMAIN run.log :
    run.log[i].installer # "none"
      => /\ run.log[i].answer.kind = "http"
         /\ run.log[i].shown # "none"
         /\ run.log[i].prompted
         /\ run.log[i].confirmed

(***************************************************************************)
(* C14.  An install whose request for the template failed (no answer, a    *)
(* status that is not a success, a body that cannot be read) ends in an    *)
(* error with nothing presented, no prompt, no template written and the    *)
(* installer not started, and it ends the run.                             *)
(***************************************************************************)
C14_FailedFetchAborts ==
  [][(InstallStep /\ FetchFailed(LastEvent'.answer))
       => /\ LastEvent'.status = Failed
          /\ LastEvent'.shown = "none"
          /\ ~LastEvent'.prompted
          /\ LastEvent'.saved = "none"
          /\ templates' = templates
          /\ LastEvent'.installer = "none"
          /\ run'.status = Failed]_allVars

\* The request for the template of a package that has a cached copy was
\* answered 404, and the install failed.
C14_Witness ==
  /\ run.mode = "install"
  /\ run.log # <<>>
  /\ LastEvent.answer.kind = "http"
  /\ LastEvent.answer.status = 404
  /\ LastEvent.result = "fetch_failed"
  /\ templates[LastEvent.pkg].some
  /\ run.status = Failed

(***************************************************************************)
(* C15.  The cached templates change only in a call of install whose       *)
(* prompt was confirmed, only for the package of the call, and a write     *)
(* that succeeded leaves exactly the text fetched; and in a run, the next  *)
(* install of a package after one that wrote its template, fetching the    *)
(* same text and reading the cached copy, reports "unchanged".             *)
(***************************************************************************)
LaterReviewUnchanged ==
  \A i, j \in DOMAIN run.log :
    (/\ run.mode = "install"
     /\ i < j
     /\ run.log[i].pkg = run.log[j].pkg
     /\ \A k \in DOMAIN run.log : (i < k /\ k < j) => run.log[k].pkg # run.log[i].pkg
     /\ run.log[i].saved = "ok"
     /\ run.log[j].answer.kind = "http"
     /\ run.log[j].answer.status = 200
     /\ run.log[j].answer.text = run.log[i].fetched
     /\ run.log[j].read = "ok")
      => run.log[j].shown = "unchanged"

C15_CacheFollowsConfirmation ==
  [][/\ templates' # templates
          => /\ InstallStep
             /\ LastEvent'.prompted
             /\ LastEvent'.confirmed
             /\ LastEvent'.saved # "none"
             /\ \A n \in Names \ {LastEvent'.pkg} : templates'[n] = templates[n]
     /\ (InstallStep /\ LastEvent'.saved = "ok")
          => /\ LastEvent'.answer.kind = "http"
             /\ templates'[LastEvent'.pkg] = SomeTemplate(LastEvent'.answer.text)
             /\ LastEvent'.fetched = LastEvent'.answer.text
     /\ (InstallStep /\ templates[LastEvent'.pkg].some /\ LastEvent'.read = "ok"
           /\ LastEvent'.answer.kind = "http" /\ LastEvent'.answer.status = 200
           /\ LastEvent'.answer.text = templates[LastEvent'.pkg].text)
          => LastEvent'.shown = "unchanged"
     /\ LaterReviewUnchanged']_allVars

\* A package was installed twice in a run: confirmed and cached the first
\* time, found unchanged the second.
C15_Witness ==
  /\ run.mode = "install"
  /\ Len(run.log) = 2
  /\ run.log[1].pkg = run.log[2].pkg
  /\ run.log[1].shown = "full"
  /\ run.log[1].confirmed
  /\ run.log[1].saved = "ok"
  /\ run.log[2].fetched = run.log[1].fetched
  /\ run.log[2].shown = "unchanged"
  /\ templates[run.log[1].pkg] = SomeTemplate(run.log[1].fetched)

(***************************************************************************)
(* C19.  In update-all an installer that exits with a failure is printed   *)
(* (the standard error taking the line) and the loop goes on to the        *)
(* packages that remain, upgrade returning success when every installer    *)
(* could be started and no print panicked; in an install the same exit is  *)
(* an error that ends the call and the run.                                *)
(***************************************************************************)
C19_InstallerFailure ==
  /\ run.mode = "upgrade"
       => /\ \A i \in DOMAIN run.log :
               (run.log[i].installer = "failure" /\ run.log[i].out # "L57")
                 => /\ run.log[i].reported
                    /\ run.log[i].status = Done
                    /\ i < Len(run.pkgs) => i < Len(run.log)
          /\ (run.log # <<>>
                /\ \A i \in DOMAIN run.log :
                     /\ run.log[i].installer # "spawn_failed"
                     /\ run.log[i].status # Panicked)
               => (run.status = Done /\ Len(run.log) = Len(run.pkgs))
  /\ run.mode = "install"
       => \A i \in DOMAIN run.log :
            run.log[i].installer = "failure"
              => /\ run.log[i].status = Failed
                 /\ i = Len(run.log)
                 /\ run.status = Failed

\* Update-all: the installer of the first package failed, the second was
\* installed, and upgrade returned success.
C19_Witness ==
  /\ run.mode = "upgrade"
  /\ Len(run.log) = 2
  /\ run.log[1].installer = "failure"
  /\ run.log[1].reported
  /\ run.log[2].installer = "success"
  /\ run.status = Done

(***************************************************************************)
(* C20.  The packages of a run are installed one call after another in the *)
(* order given; a call the user declined is followed by the call for the   *)
(* next package; a call that ended in an error (or in a panic) is the last *)
(* of the run.                                                             *)
(***************************************************************************)
InOrder ==
  run.mode = "install"
    => /\ Len(run.log) <= Len(run.pkgs)
       /\ \A i \in DOMAIN run.log : run.log[i].pkg = run.pkgs[i]
       /\ \A i \in DOMAIN run.log :
            run.log[i].status # Done
              => (i = Len(run.log) /\ run.status = run.log[i].status)
       /\ ~run.loaded => (run.log = <<>> /\ run.status \in {Failed, Panicked})
       /\ (run.loaded /\ run.status \in {Failed, Panicked})
            => (run.log # <<>> /\ LastEvent.status = run.status)
       /\ run.status = Done
            <=> (run.loaded /\ Len(run.log) = Len(run.pkgs)
                   /\ LastEvent.status = Done)
       /\ run.status = "running"
            <=> (run.loaded /\ Len(run.log) < Len(run.pkgs)
                   /\ \A i \in DOMAIN run.log : run.log[i].status = Done)
       /\ \A i \in DOMAIN run.log :
            (run.log[i].result = "aborted_by_user" /\ i < Len(run.pkgs))
              => (i < Len(run.log) \/ run.status = "running")

C20_OneAfterAnother ==
  [][/\ InOrder'
     /\ InstallStep
          => /\ run.status = "running"
             /\ run'.pkgs = run.pkgs
             /\ SubSeq(run'.log, 1, Len(run.log)) = run.log
             /\ LastEvent'.pkg = run.pkgs[Len(run.log) + 1]
     /\ (run.mode = "install" /\ run.status # "running")
          => run'.mode = "none"]_allVars

\* The user declined the first package and the call for the second was made.
C20_Witness ==
  /\ run.mode = "install"
  /\ Len(run.pkgs) = 2
  /\ Len(run.log) = 2
  /\ run.log[1].result = "aborted_by_user"
  /\ run.log[2].pkg = run.pkgs[2]

(***************************************************************************)
(* Vocabulary of the properties of Index::search.                          *)
(***************************************************************************)
\* The order of characters and the lexicographic order of names.
Rank(c) ==
  CASE c = "a" -> 1 [] c = "b" -> 2 [] c = "f" -> 6 [] c = "o" -> 15
    [] c = "r" -> 18 [] OTHER -> 24

RECURSIVE LexLess(_, _)
LexLess(s, t) ==
  IF t = <<>> THEN FALSE
  ELSE IF s = <<>> THEN TRUE
  ELSE IF Head(s) # Head(t) THEN Rank(Head(s)) < Rank(Head(t))
  ELSE LexLess(Tail(s), Tail(t))

Matching(index, query) == {n \in DOMAIN index : Contains(Chars(n), query)}

\* The results are the matching entries of the index, once each.
ExactMatches ==
  /\ {searched.results[i].name : i \in DOMAIN searched.results}
       = Matching(searched.index, searched.query)
  /\ Len(searched.results) = Cardinality(Matching(searched.index, searched.query))
  /\ \A i \in DOMAIN searched.results :
       searched.results[i].info = searched.index[searched.results[i].name]

(***************************************************************************)
(* C21.  Index::search returns the entries of the index whose name         *)
(* contains the query, once each, every entry for the empty query, and     *)
(* returns them in the lexicographic order of their names.                 *)
(***************************************************************************)
C21_SearchSortedMatches ==
  searched.op = "search"
    => /\ ExactMatches
       /\ \A i, j \in DOMAIN searched.results :
            i < j => LexLess(Chars(searched.results[i].name),
                             Chars(searched.results[j].name))

====
